---- MODULE Spec2Model ----
(***************************************************************************)
(* Model of vprof/frontend/code_heatmap.js: the CodeHeatmap object, its    *)
(* render pass (renderCode_, formatSrcLine_, the d3 log colour scale) and  *)
(* the mouseover / mouseout handlers that render() binds to the rows.      *)
(*                                                                         *)
(* Representation.                                                         *)
(*  - A time is a whole number of quarter-microseconds, so MIN_RUN_TIME    *)
(*    (0.000001 s) is 4; the times of the model are powers of two, for     *)
(*    which the position t = log(x / MIN) / log(max / MIN) is the rational *)
(*    k / e of two whole logarithms. The code computes t and the channels  *)
(*    in doubles and prints Math.round of each channel; the two differ     *)
(*    only where an exact channel is half way between two integers and the *)
(*    doubles' quotient is not exactly k / e (see QuotientAbove).          *)
(*  - A JavaScript value (a number or undefined) is a sequence: <<>> for   *)
(*    undefined, <<v>> for the number v; objects hold such values.         *)
(*  - A colour is <<r, g, b>>; the empty string '' is <<>>.                *)
(*  - An HTML string of rows is the sequence of its elements; an element   *)
(*    is a record [cls, bg, num, code].                                    *)
(***************************************************************************)
EXTENDS Integers, Sequences, FiniteSets, TLC

VARIABLES
    data,             \* this.data_: [runTime, heatmaps]
    phase,            \* "constructed" until render() has run, then "rendered"
    renderedSources,  \* render()'s renderedSources array
    dom,              \* per file, the children of its .heatmap-src-code text node
    rows,             \* per file, the elements the handlers were bound to, in order
    tooltip           \* the shared tooltip: [cls, html]

vars == <<data, phase, renderedSources, dom, rows, tooltip>>

----
\* Bounds of the model.

\* Most files of one report.
MaxFiles == 2

\* Most srcCode entries of one report, over all its files.
MaxEntries == 3

\* The number of lines every 'skip' entry of the model stands for.
SkipCount == 2

----
\* JavaScript values.

Undefined == <<>>

Some(v) == <<v>>

\* JavaScript truthiness of a number-or-undefined: undefined and 0 are falsy.
Truthy(x) == x # Undefined /\ x[1] # 0

\* obj[key] on a plain object: undefined when the key is absent.
Lookup(obj, key) == IF key \in DOMAIN obj THEN obj[key] ELSE Undefined

\* obj[key] = value on a plain object.
Store(obj, key, value) ==
    [k \in (DOMAIN obj) \cup {key} |-> IF k = key THEN value ELSE obj[k]]

EmptyObject == [k \in {} |-> Undefined]

----
\* Constants of the constructor.

\* this.MIN_RUN_TIME = 0.000001 (seconds): four quarter-microseconds.
MIN_RUN_TIME == 4

MIN_RUN_COLOR == <<235, 250, 235>>

MAX_RUN_COLOR == <<71, 209, 71>>

NoColor == <<>>

LineNormal == "heatmap-src-line-normal"

LineHighlight == "heatmap-src-line-highlight"

SkipLine == "heatmap-skip-line"

TooltipVisible == "content-tooltip content-tooltip-visible"

TooltipInvisible == "content-tooltip content-tooltip-invisible"

----
\* The colour scale: d3scale.scaleLog().domain([MIN, MAX]).range([c0, c1]).

RECURSIVE Log2(_)
\* The base-2 logarithm of a power of two, taken sixteen, eight, four, two
\* and one bits at a time.
Log2(n) ==
    IF n >= 65536 THEN 16 + Log2(n \div 65536)
    ELSE IF n >= 256 THEN 8 + Log2(n \div 256)
    ELSE IF n >= 16 THEN 4 + Log2(n \div 16)
    ELSE IF n >= 4 THEN 2 + Log2(n \div 4)
    ELSE IF n >= 2 THEN 1
    ELSE 0

\* Math.round(n / d) for d > 0: the nearest integer, halves rounded up.
RoundDiv(n, d) == (2 * n + d) \div (2 * d)

\* d3-color's channel clamp in Rgb.toString.
Clamp(c) == IF c < 0 THEN 0 ELSE IF c > 255 THEN 255 ELSE c

RECURSIVE OddPart(_)
\* The odd part of the magnitude of an integer (0 for 0).
OddPart(n) ==
    IF n = 0 THEN 0
    ELSE IF n < 0 THEN OddPart(0 - n)
    ELSE IF n % 2 = 1 THEN n
    ELSE OddPart(n \div 2)

\* Whether Math.log(2^k) / Math.log(2^e) in doubles is above k / e, for k / e
\* a dyadic rational (the only positions where a channel can be half way) and
\* k, e in -2..28, the exponents of the times a 32-bit integer holds. The
\* doubles nearest 21 ln 2 and 27 ln 2 lie above 7 and 9 times the double
\* nearest 3 ln 2, so these quotients by 3, 6, 12 and 24 come out one step
\* above; every other such quotient is exactly k / e.
QuotientAbove(k, e) == e > 0 /\ OddPart(e) = 3 /\ k \in {21, 27}

\* One channel of interpolateRgb(c0, c1) at t = k / e, as rgb(...) prints it:
\* Math.round of c0 + t * (c1 - c0), clamped. Math.round rounds an exact half
\* up; where the exact value is a half and the doubles' t is above k / e, a
\* falling channel (c1 < c0) lies just below the half and is rounded down.
Channel(c0, c1, k, e) ==
    LET d == IF e > 0 THEN e ELSE 0 - e
        n == IF e > 0 THEN c0 * e + (c1 - c0) * k
             ELSE c0 * (0 - e) + (c1 - c0) * (0 - k)
        half == (2 * n) % d = 0 /\ ((2 * n) \div d) % 2 = 1
    IN  IF half /\ QuotientAbove(k, e) /\ c1 < c0
        THEN Clamp(RoundDiv(n, d) - 1)
        ELSE Clamp(RoundDiv(n, d))

\* The channel at t = +Infinity or -Infinity. d3-interpolate interpolates
\* equal channels by a constant, so such a channel stays c0.
ChannelAtInfinity(c0, c1, positive) ==
    IF c1 = c0 THEN Clamp(c0)
    ELSE IF (c1 > c0) = positive THEN 255 ELSE 0

\* scaleLog().domain([MIN_RUN_TIME, max]).range([MIN_RUN_COLOR, MAX_RUN_COLOR])
\* applied to x: t = log(x / MIN) / log(max / MIN), interpolated in RGB. A
\* degenerate domain maps every x, undefined included, to t = 0 (d3-scale
\* 1.x: the deinterpolator is a constant); otherwise undefined gives NaN
\* channels, printed as 0, and zero gives t = -Infinity (+Infinity when the
\* domain is reversed).
ScaleLog(max, x) ==
    LET e == Log2(max) - Log2(MIN_RUN_TIME)
        k == Log2(x[1]) - Log2(MIN_RUN_TIME)
    IN  IF e = 0 THEN MIN_RUN_COLOR
        ELSE IF x = Undefined THEN <<0, 0, 0>>
        ELSE IF x[1] = 0
             THEN [c \in 1..3 |->
                     ChannelAtInfinity(MIN_RUN_COLOR[c], MAX_RUN_COLOR[c], e < 0)]
        ELSE [c \in 1..3 |-> Channel(MIN_RUN_COLOR[c], MAX_RUN_COLOR[c], k, e)]

\* Mutant of heatmapScale_: the domain's upper bound is fixed, not the report's.
heatmapScaleFixedMax(runTime, x) == ScaleLog(16, x)

\* this.heatmapScale_(x), the scale the constructor builds from data.runTime.
heatmapScale_(runTime, x) == ScaleLog(runTime, x)

----
\* Rendering one file.

\* hljs.highlight('python', codeLine).value: opaque markup for the line.
Highlight(codeLine) == <<"hljs", "python", codeLine>>

\* Mutant of formatSrcLine_: every time goes through the scale.
formatSrcLineAlwaysScaled(runTime, lineNumber, codeLine, runCount) ==
    [cls  |-> LineNormal,
     bg   |-> heatmapScale_(runTime, runCount),
     num  |-> lineNumber,
     code |-> Highlight(codeLine)]

\* formatSrcLine_(lineNumber, codeLine, runCount): one row element.
formatSrcLine_(runTime, lineNumber, codeLine, runCount) ==
    [cls  |-> LineNormal,
     bg   |-> IF Truthy(runCount) THEN heatmapScale_(runTime, runCount) ELSE NoColor,
     num  |-> lineNumber,
     code |-> Highlight(codeLine)]

\* The marker renderCode_ emits for a 'skip' entry.
SkipMarker(entry) ==
    [cls |-> SkipLine, bg |-> NoColor, num |-> entry[2],
     code |-> <<"text", " lines skipped">>]

\* Mutant of LineStep: the lookups are keyed by the position, not by the line number.
LineStepByPosition(runTime, stats, entry, acc) ==
    LET lineNumber == entry[2]
        codeLine == entry[3]
    IN  [outputCode |-> Append(acc.outputCode,
                          formatSrcLine_(runTime, lineNumber, codeLine,
                                         Lookup(stats.heatmap, lineNumber))),
         timeMap  |-> Store(acc.timeMap, acc.srcIndex,
                            Lookup(stats.heatmap, acc.srcIndex)),
         countMap |-> Store(acc.countMap, acc.srcIndex,
                            Lookup(stats.executionCount, acc.srcIndex)),
         srcIndex |-> acc.srcIndex + 1]

\* The body of renderCode_'s loop for a 'line' entry.
LineStep(runTime, stats, entry, acc) ==
    LET lineNumber == entry[2]
        codeLine == entry[3]
    IN  [outputCode |-> Append(acc.outputCode,
                          formatSrcLine_(runTime, lineNumber, codeLine,
                                         Lookup(stats.heatmap, lineNumber))),
         timeMap  |-> Store(acc.timeMap, acc.srcIndex,
                            Lookup(stats.heatmap, lineNumber)),
         countMap |-> Store(acc.countMap, acc.srcIndex,
                            Lookup(stats.executionCount, lineNumber)),
         srcIndex |-> acc.srcIndex + 1]

\* Mutant of SkipStep: a skip advances the position counter.
SkipStepAdvancing(entry, acc) ==
    [acc EXCEPT !.outputCode = Append(acc.outputCode, SkipMarker(entry)),
                !.srcIndex = acc.srcIndex + 1]

\* The body of renderCode_'s loop for a 'skip' entry.
SkipStep(entry, acc) ==
    [acc EXCEPT !.outputCode = Append(acc.outputCode, SkipMarker(entry))]

RECURSIVE RenderLoop(_, _, _, _)
\* renderCode_'s loop from entry i on.
RenderLoop(runTime, stats, i, acc) ==
    IF i > Len(stats.srcCode) THEN acc
    ELSE LET entry == stats.srcCode[i]
         IN  RenderLoop(runTime, stats, i + 1,
                 IF entry[1] = "line" THEN LineStep(runTime, stats, entry, acc)
                 ELSE IF entry[1] = "skip" THEN SkipStep(entry, acc)
                 ELSE acc)

\* renderCode_(stats).
renderCode_(runTime, stats) ==
    LET acc == RenderLoop(runTime, stats, 1,
                   [outputCode |-> <<>>, timeMap |-> EmptyObject,
                    countMap |-> EmptyObject, srcIndex |-> 0])
    IN  [srcCode |-> acc.outputCode, timeMap |-> acc.timeMap,
         countMap |-> acc.countMap]

----
\* The reports of the model.

\* What the report records for one srcCode entry: a skip, or a line with
\* neither a time nor a count ("none"), with half the run time and a count
\* ("hot"), with a time and no count ("timeOnly"), or with a zero time and
\* a count ("zeroTime").
EntryKinds == {"skip", "none", "hot", "timeOnly", "zeroTime"}

\* The plans (sequences of entry kinds) of exactly n entries.
PlansOfLen(n) == [1..n -> EntryKinds]

RECURSIVE LineNumberAt(_, _)
\* The line number of entry i of a plan: lines count on by one, a skip
\* stands for SkipCount lines.
LineNumberAt(plan, i) ==
    IF i = 1 THEN 1
    ELSE LineNumberAt(plan, i - 1)
         + (IF plan[i - 1] = "skip" THEN SkipCount ELSE 1)

\* The time of a "hot" line: an eighth of the run, or half of it when the
\* run is shorter than eight units.
HotTime(runTime) == IF runTime >= 8 THEN runTime \div 8 ELSE runTime \div 2

\* The time the report records for a line of the given kind.
TimeOf(kind, runTime) ==
    CASE kind = "hot" -> Some(HotTime(runTime))
      [] kind = "timeOnly" -> Some(1)
      [] kind = "zeroTime" -> Some(0)
      [] OTHER -> Undefined

\* The count the report records for a line of the given kind.
CountOf(kind) ==
    CASE kind = "hot" -> Some(3)
      [] kind = "zeroTime" -> Some(2)
      [] OTHER -> Undefined

\* The file (srcCode, heatmap, executionCount) a plan stands for.
FileOf(plan, runTime) ==
    LET n == Len(plan)
        lines == {i \in 1..n : plan[i] # "skip"}
        timed == {i \in lines : TimeOf(plan[i], runTime) # Undefined}
        counted == {i \in lines : CountOf(plan[i]) # Undefined}
        at(S, ln) == CHOOSE i \in S : LineNumberAt(plan, i) = ln
    IN  [srcCode |-> [i \in 1..n |->
                        IF plan[i] = "skip" THEN <<"skip", SkipCount>>
                        ELSE <<"line", LineNumberAt(plan, i), "code">>],
         heatmap |-> [ln \in {LineNumberAt(plan, i) : i \in timed} |->
                        TimeOf(plan[at(timed, ln)], runTime)],
         executionCount |-> [ln \in {LineNumberAt(plan, i) : i \in counted} |->
                        CountOf(plan[at(counted, ln)])]]

RECURSIVE PlanSeqs(_, _)
\* The sequences of f plans with at most k entries in all.
PlanSeqs(f, k) ==
    IF f = 0 THEN {<<>>}
    ELSE UNION {{<<p>> \o rest : p \in PlansOfLen(n), rest \in PlanSeqs(f - 1, k - n)}
                : n \in 0..k}

\* data.runTime: below MIN_RUN_TIME, at it, and two above it (16 us and
\* 16.777216 s). With the last one the time of a "hot" line is at t = 21 / 24,
\* where the red and the blue channel are half way (91.5) and the doubles'
\* quotient is above 21 / 24.
RunTimes == {2, 4, 64, 67108864}

Reports ==
    {[runTime |-> rt, heatmaps |-> [i \in 1..Len(ps) |-> FileOf(ps[i], rt)]] :
        rt \in RunTimes, ps \in UNION {PlanSeqs(f, MaxEntries) : f \in 1..MaxFiles}}

----
\* The state machine.

NoTooltipHtml == <<>>

Init ==
    /\ data \in Reports
    /\ phase = "constructed"
    /\ renderedSources = <<>>
    /\ dom = <<>>
    /\ rows = <<>>
    /\ tooltip = [cls |-> TooltipInvisible, html |-> NoTooltipHtml]

RECURSIVE SelectByClass(_, _, _)
\* selectAll('.' + cls) over a container's children: the indices, in document
\* order from i on, of the elements of that class.
SelectByClass(nodes, cls, i) ==
    IF i > Len(nodes) THEN <<>>
    ELSE (IF nodes[i].cls = cls THEN <<i>> ELSE <<>>)
         \o SelectByClass(nodes, cls, i + 1)

\* Mutant of BoundRows: every child of the container is selected.
BoundRowsAllChildren(nodes) == [d \in 1..Len(nodes) |-> d]

\* The selection render() binds the handlers of one file to.
BoundRows(nodes) == SelectByClass(nodes, LineNormal, 1)

\* render(): renders every file, inserts the rows, creates the tooltip and
\* binds the handlers.
Render ==
    /\ phase = "constructed"
    /\ LET rs == [i \in 1..Len(data.heatmaps) |->
                    renderCode_(data.runTime, data.heatmaps[i])]
       IN  /\ renderedSources' = rs
           /\ dom' = [i \in 1..Len(rs) |-> rs[i].srcCode]
           /\ rows' = [i \in 1..Len(rs) |-> BoundRows(rs[i].srcCode)]
    /\ tooltip' = [cls |-> TooltipInvisible, html |-> NoTooltipHtml]
    /\ phase' = "rendered"
    /\ UNCHANGED data

RECURSIVE Gcd(_, _)
Gcd(a, b) == IF b = 0 THEN a ELSE Gcd(b, a % b)

NaN == <<>>

\* 100 * (lineRuntime / totalTime) as a fraction <<n, d>> in lowest terms;
\* NaN when lineRuntime is undefined.
Percentage(lineRuntime, totalTime) ==
    IF lineRuntime = Undefined THEN NaN
    ELSE LET g == Gcd(100 * lineRuntime[1], totalTime)
         IN  <<(100 * lineRuntime[1]) \div g, totalTime \div g>>

\* The markup showTooltip_ writes: the four values it concatenates.
TooltipHtml(lineRuntime, lineRuncount, totalTime) ==
    <<lineRuntime, Some(totalTime), Percentage(lineRuntime, totalTime), lineRuncount>>

\* Mutant of showTooltip_: the percentage is left a fraction of one.
showTooltipNoPercent(element, tt, lineRuntime, lineRuncount, totalTime) ==
    [element |-> [element EXCEPT !.cls = LineHighlight],
     tooltip |-> [cls |-> TooltipVisible,
                  html |-> <<lineRuntime, Some(totalTime),
                             <<lineRuntime[1], totalTime>>, lineRuncount>>]]

\* showTooltip_(element, tooltip, lineRuntime, lineRuncount, totalTime): the
\* element and the tooltip as it leaves them (the tooltip's left/top, the
\* pointer's coordinates, are not modelled).
showTooltip_(element, tt, lineRuntime, lineRuncount, totalTime) ==
    [element |-> [element EXCEPT !.cls = LineHighlight],
     tooltip |-> [cls |-> TooltipVisible,
                  html |-> TooltipHtml(lineRuntime, lineRuncount, totalTime)]]

\* Mutant of hideTooltip_: the tooltip is left as it is.
hideTooltipRowOnly(element, tt) ==
    [element |-> [element EXCEPT !.cls = LineNormal], tooltip |-> tt]

\* Mutant of hideTooltip_: it acts only on a highlighted row.
hideTooltipIfHighlighted(element, tt) ==
    IF element.cls = LineHighlight
    THEN [element |-> [element EXCEPT !.cls = LineNormal],
          tooltip |-> [tt EXCEPT !.cls = TooltipInvisible]]
    ELSE [element |-> element, tooltip |-> tt]

\* hideTooltip_(element, tooltip): the element and the tooltip as it leaves them.
hideTooltip_(element, tt) ==
    [element |-> [element EXCEPT !.cls = LineNormal],
     tooltip |-> [tt EXCEPT !.cls = TooltipInvisible]]

\* The files and, per file, the places of the selection the handlers are bound to.
Files == 1..Len(rows)

Places(i) == 1..Len(rows[i])

\* The index d3 hands the listener of place j of a selection.
HandlerIndex(j) == j - 1

\* Mutant of ShowsTooltip: the guard reads the time, not the count.
ShowsTooltipByTime(i, idx) == Truthy(Lookup(renderedSources[i].timeMap, idx))

\* Mutant of ShowsTooltip: the handler has no guard.
ShowsTooltipAlways(i, idx) == TRUE

\* The guard of the mouseover handler of file i, called with index idx.
ShowsTooltip(i, idx) == Truthy(Lookup(renderedSources[i].countMap, idx))

\* The mouseover handler render() binds to place j of file i's selection.
MouseOver(i, j) ==
    /\ phase = "rendered"
    /\ LET d == rows[i][j]
           idx == HandlerIndex(j)
           shown == showTooltip_(dom[i][d], tooltip,
                                 Lookup(renderedSources[i].timeMap, idx),
                                 Lookup(renderedSources[i].countMap, idx),
                                 data.runTime)
       IN  IF ShowsTooltip(i, idx)
           THEN /\ dom' = [dom EXCEPT ![i][d] = shown.element]
                /\ tooltip' = shown.tooltip
           ELSE UNCHANGED <<dom, tooltip>>
    /\ UNCHANGED <<data, phase, renderedSources, rows>>

\* The mouseout handler render() binds to place j of file i's selection.
MouseOut(i, j) ==
    /\ phase = "rendered"
    /\ LET d == rows[i][j]
           hidden == hideTooltip_(dom[i][d], tooltip)
       IN  /\ dom' = [dom EXCEPT ![i][d] = hidden.element]
           /\ tooltip' = hidden.tooltip
    /\ UNCHANGED <<data, phase, renderedSources, rows>>

\* The browser delivers the events one at a time, in any order.
HoverEnter == \E i \in Files : \E j \in Places(i) : MouseOver(i, j)

HoverExit == \E i \in Files : \E j \in Places(i) : MouseOut(i, j)

Next == Render \/ HoverEnter \/ HoverExit

Spec == Init /\ [][Next]_vars

----
\* Vocabulary of the properties.

Rendered == phase = "rendered"

IsLine(entry) == entry[1] = "line"

\* The srcCode of file i of the report.
SrcCode(i) == data.heatmaps[i].srcCode

\* The 'line' entries of file i, as places of its srcCode.
LineEntries(i) == {e \in 1..Len(SrcCode(i)) : IsLine(SrcCode(i)[e])}

\* The number of 'line' entries of file i before entry e: the position the
\* reindexing is to give entry e.
PositionOf(i, e) == Cardinality({k \in LineEntries(i) : k < e})

\* What the report records for line number ln of file i.
TimeOfLine(i, ln) == Lookup(data.heatmaps[i].heatmap, ln)

CountOfLine(i, ln) == Lookup(data.heatmaps[i].executionCount, ln)

\* The times of the model up to t: the powers of two.
TimesUpTo(t) == {2 ^ k : k \in 0..Log2(t)}

\* Colour c1 is nowhere darker than c2; c1 is lighter than c2.
NotDarker(c1, c2) == \A c \in 1..3 : c1[c] >= c2[c]

Lighter(c1, c2) == NotDarker(c1, c2) /\ c1 # c2

HighlightedRows ==
    {<<i, d>> \in UNION {{i} \X (1..Len(dom[i])) : i \in 1..Len(dom)} :
        dom[i][d].cls = LineHighlight}

----
\* C1: a file with N 'line' entries gets exactly the positions 0..N-1 (the
\* keys of timeMap and of countMap), its rows come out in the order of its
\* 'line' entries, and a 'skip' entry adds a marker but no position.
C1_Positions ==
    Rendered =>
        \A i \in 1..Len(data.heatmaps) :
            LET n == Cardinality(LineEntries(i))
                out == renderedSources[i].srcCode
            IN  /\ DOMAIN renderedSources[i].timeMap = 0..(n - 1)
                /\ DOMAIN renderedSources[i].countMap = 0..(n - 1)
                /\ Len(out) = Len(SrcCode(i))
                /\ \A e \in 1..Len(SrcCode(i)) :
                      IF IsLine(SrcCode(i)[e])
                      THEN /\ out[e].cls = LineNormal
                           /\ out[e].num = SrcCode(i)[e][2]
                      ELSE /\ out[e].cls = SkipLine
                           /\ out[e].num = SrcCode(i)[e][2]

\* A rendered file with a skip before a line and a line after a skip.
C1_Witness ==
    /\ Rendered
    /\ \E i \in 1..Len(data.heatmaps) :
          /\ Len(SrcCode(i)) = 3
          /\ IsLine(SrcCode(i)[1])
          /\ ~IsLine(SrcCode(i)[2])
          /\ IsLine(SrcCode(i)[3])
          /\ DOMAIN renderedSources[i].timeMap = {0, 1}

\* C2: the position given to a 'line' entry holds, in timeMap and countMap,
\* what heatmap and executionCount record under the entry's line number.
C2_RoundTrip ==
    Rendered =>
        \A i \in 1..Len(data.heatmaps) : \A e \in LineEntries(i) :
            LET p == PositionOf(i, e)
                ln == SrcCode(i)[e][2]
            IN  /\ p \in DOMAIN renderedSources[i].timeMap
                /\ p \in DOMAIN renderedSources[i].countMap
                /\ renderedSources[i].timeMap[p] = TimeOfLine(i, ln)
                /\ renderedSources[i].countMap[p] = CountOfLine(i, ln)

\* A rendered file whose second line, after a skip, has a recorded time and
\* count that differ from the first line's.
C2_Witness ==
    /\ Rendered
    /\ \E i \in 1..Len(data.heatmaps) : \E e \in LineEntries(i) :
          /\ PositionOf(i, e) = 1
          /\ SrcCode(i)[e][2] > 2
          /\ Truthy(TimeOfLine(i, SrcCode(i)[e][2]))
          /\ Truthy(CountOfLine(i, SrcCode(i)[e][2]))
          /\ renderedSources[i].timeMap[0] # renderedSources[i].timeMap[1]

\* The line number the row at place j of file i's selection displays.
RowLine(i, j) == dom[i][rows[i][j]].num

\* C3: hover-enter on a row with a recorded (nonzero) time and count
\* highlights the row, shows the tooltip, and fills it with that time, the
\* report's runTime, 100 * time / runTime, and that count.
C3_HoverEnterShows ==
    Rendered =>
        \A i \in Files : \A j \in Places(i) :
          LET time == TimeOfLine(i, RowLine(i, j))
              count == CountOfLine(i, RowLine(i, j))
          IN  (Truthy(time) /\ Truthy(count)) =>
                 /\ ENABLED MouseOver(i, j)
                 /\ ~ENABLED (/\ MouseOver(i, j)
                              /\ ~(/\ dom'[i][rows[i][j]].cls = LineHighlight
                                   /\ tooltip'.cls = TooltipVisible
                                   /\ Len(tooltip'.html) = 4
                                   /\ tooltip'.html[1] = time
                                   /\ tooltip'.html[2] = Some(data.runTime)
                                   /\ tooltip'.html[3][2] > 0
                                   /\ tooltip'.html[3][1] * data.runTime
                                          = 100 * time[1] * tooltip'.html[3][2]
                                   /\ tooltip'.html[4] = count))

\* The tooltip is visible with a nonzero time and count, over a highlighted
\* row: a hover-enter on a row with data has acted.
C3_Witness ==
    /\ Rendered
    /\ tooltip.cls = TooltipVisible
    /\ Truthy(tooltip.html[1])
    /\ Truthy(tooltip.html[4])
    /\ HighlightedRows # {}

\* C4: hover-enter on a row with no recorded count (absent or zero) changes
\* nothing, neither the row nor the tooltip, and such a row is never
\* highlighted.
C4_HoverEnterInert ==
    Rendered =>
        \A i \in Files : \A j \in Places(i) :
          ~Truthy(CountOfLine(i, RowLine(i, j))) =>
             /\ dom[i][rows[i][j]].cls = LineNormal
             /\ ENABLED MouseOver(i, j)
             /\ ~ENABLED (MouseOver(i, j) /\ ~UNCHANGED <<dom, tooltip>>)

\* A report with a row without data and a row with data, after a hover-enter
\* and a hover-exit on the row with data: the events have run, the inert row
\* is there to be hovered.
C4_Witness ==
    /\ Rendered
    /\ tooltip.html # NoTooltipHtml
    /\ \E i \in Files : \E j \in Places(i) :
          /\ ~Truthy(CountOfLine(i, RowLine(i, j)))
          /\ ~Truthy(TimeOfLine(i, RowLine(i, j)))
          /\ dom[i][rows[i][j]].cls = LineNormal

\* C5: hover-exit on any row, in any reachable state, leaves that row
\* unhighlighted and the tooltip hidden, and a second hover-exit on it
\* changes nothing more.
C5_HoverExitHides ==
    Rendered =>
        \A i \in Files : \A j \in Places(i) :
          /\ ENABLED MouseOut(i, j)
          /\ ~ENABLED (/\ MouseOut(i, j)
                       /\ ~(/\ dom'[i][rows[i][j]].cls = LineNormal
                            /\ tooltip'.cls = TooltipInvisible
                            /\ hideTooltip_(dom'[i][rows[i][j]], tooltip')
                                  = [element |-> dom'[i][rows[i][j]],
                                     tooltip |-> tooltip']))

\* The tooltip is hidden after it was shown: a hover-exit followed a
\* hover-enter that acted.
C5_Witness ==
    /\ Rendered
    /\ tooltip.cls = TooltipInvisible
    /\ tooltip.html # NoTooltipHtml
    /\ HighlightedRows = {}

\* The colour the scale of the report gives time t.
ColorFor(t) == heatmapScale_(data.runTime, Some(t))

\* The colours the scale of the report gives the times up to runTime.
Colors == [t \in TimesUpTo(data.runTime) |-> ColorFor(t)]

\* C6 as stated: of two nonzero times t1 < t2 <= runTime, t1 gets the
\* lighter colour.
C6_StrictlyLighter ==
    LET color == Colors
    IN  \A t1, t2 \in DOMAIN color :
            t1 < t2 => Lighter(color[t1], color[t2])

RECURSIVE NeverDarkerFrom(_, _)
\* From time t, whose colour is c, up to runTime: each time gets a colour
\* nowhere darker than its double's.
NeverDarkerFrom(t, c) ==
    \/ 2 * t > data.runTime
    \/ LET next == ColorFor(2 * t)
       IN  NotDarker(c, next) /\ NeverDarkerFrom(2 * t, next)

RECURSIVE NeverLighterFrom(_, _)
\* From time t, whose colour is c, up to runTime: each time gets a colour
\* nowhere lighter than its double's.
NeverLighterFrom(t, c) ==
    \/ 2 * t > data.runTime
    \/ LET next == ColorFor(2 * t)
       IN  NotDarker(next, c) /\ NeverLighterFrom(2 * t, next)

\* The time whose square is MIN_RUN_TIME * runTime, when it is a time of
\* the model.
GeometricMean == 2 ^ ((Log2(MIN_RUN_TIME) + Log2(data.runTime)) \div 2)

\* C6 as amended. The scale is the logarithmic interpolation over
\* [MIN_RUN_TIME, data.runTime], the upper bound taken from the report.
\* When runTime >= MIN_RUN_TIME, of two nonzero times t1 < t2 <= runTime, t1
\* gets a colour nowhere darker than t2's (the order is transitive, so it is
\* stated of each time and its double); MIN_RUN_TIME gets MIN_RUN_COLOR, and
\* when runTime > MIN_RUN_TIME, runTime gets MAX_RUN_COLOR and the geometric
\* mean of the two bounds gets the colour half way, halves rounded up.
\* When runTime < MIN_RUN_TIME the order is the reverse: runTime gets
\* MAX_RUN_COLOR, a smaller time gets a colour nowhere lighter, and half of
\* runTime gets a darker one. The constructor alone assigns the scale and
\* data_, so it is stated of the object as constructed.
C6_NeverDarker ==
    phase = "constructed" =>
        /\ data.runTime >= MIN_RUN_TIME =>
              /\ NeverDarkerFrom(1, ColorFor(1))
              /\ ColorFor(MIN_RUN_TIME) = MIN_RUN_COLOR
        /\ data.runTime > MIN_RUN_TIME =>
              /\ ColorFor(data.runTime) = MAX_RUN_COLOR
              /\ Lighter(ColorFor(MIN_RUN_TIME), ColorFor(data.runTime))
              /\ Log2(data.runTime) % 2 = 0 =>
                    ColorFor(GeometricMean)
                       = [c \in 1..3 |-> RoundDiv(MIN_RUN_COLOR[c] + MAX_RUN_COLOR[c], 2)]
        /\ data.runTime < MIN_RUN_TIME =>
              /\ ColorFor(data.runTime) = MAX_RUN_COLOR
              /\ NeverLighterFrom(1, ColorFor(1))
              /\ data.runTime >= 2 =>
                    Lighter(ColorFor(data.runTime), ColorFor(data.runTime \div 2))

\* A rendered report with runTime above MIN_RUN_TIME and two rows coloured by
\* the scale, the row of the smaller time the lighter one; the larger time
\* is where the doubles put the red channel just below a half, and the row
\* has the lower neighbour.
C6_Witness ==
    /\ Rendered
    /\ data.runTime > MIN_RUN_TIME
    /\ \E i \in Files : \E j1, j2 \in Places(i) :
          LET t1 == TimeOfLine(i, RowLine(i, j1))
              t2 == TimeOfLine(i, RowLine(i, j2))
          IN  /\ Truthy(t1) /\ Truthy(t2) /\ t1[1] < t2[1]
              /\ dom[i][rows[i][j1]].bg = ColorFor(t1[1])
              /\ dom[i][rows[i][j2]].bg = ColorFor(t2[1])
              /\ Lighter(dom[i][rows[i][j1]].bg, dom[i][rows[i][j2]].bg)
              /\ LET k == Log2(t2[1]) - Log2(MIN_RUN_TIME)
                     e == Log2(data.runTime) - Log2(MIN_RUN_TIME)
                 IN  /\ QuotientAbove(k, e)
                     /\ (2 * dom[i][rows[i][j2]].bg[1] + 1) * e
                           = 2 * (MIN_RUN_COLOR[1] * e
                                  + (MAX_RUN_COLOR[1] - MIN_RUN_COLOR[1]) * k)

\* C7: the row of a 'line' entry whose time is zero or absent has no
\* background colour; the row of an entry with a nonzero time has the
\* scale's colour for that time.
C7_ColourOnlyWithTime ==
    Rendered =>
        \A i \in 1..Len(data.heatmaps) : \A e \in LineEntries(i) :
            LET time == TimeOfLine(i, SrcCode(i)[e][2])
            IN  IF Truthy(time)
                THEN dom[i][e].bg = ScaleLog(data.runTime, time)
                ELSE dom[i][e].bg = NoColor

\* A rendered file with a row of zero time, a row of absent time and a row
\* of nonzero time.
C7_Witness ==
    /\ Rendered
    /\ \E i \in 1..Len(data.heatmaps) : \E e0, e1, e2 \in LineEntries(i) :
          /\ TimeOfLine(i, SrcCode(i)[e0][2]) = Some(0)
          /\ TimeOfLine(i, SrcCode(i)[e1][2]) = Undefined
          /\ Truthy(TimeOfLine(i, SrcCode(i)[e2][2]))
          /\ dom[i][e0].bg = NoColor
          /\ dom[i][e1].bg = NoColor
          /\ dom[i][e2].bg # NoColor

\* C8: in every file the handlers are bound to exactly the rows of its
\* 'line' entries; the index the handler of a row uses is the position of
\* the row's entry among the 'line' entries of its own file (skip markers
\* not counted), and a hover-enter that shows the tooltip shows what that
\* file records for that entry's line number.
C8_HandlerIndex ==
    Rendered =>
        \A i \in Files :
            /\ Len(rows[i]) = Cardinality(LineEntries(i))
            /\ \A j \in Places(i) :
                  LET d == rows[i][j]
                      ln == SrcCode(i)[d][2]
                  IN  /\ IsLine(SrcCode(i)[d])
                      /\ HandlerIndex(j) = PositionOf(i, d)
                      /\ Truthy(CountOfLine(i, ln)) =>
                            /\ ENABLED MouseOver(i, j)
                            /\ ~ENABLED (/\ MouseOver(i, j)
                                         /\ ~(/\ tooltip'.html[1] = TimeOfLine(i, ln)
                                              /\ tooltip'.html[4] = CountOfLine(i, ln)
                                              /\ dom'[i][d].cls = LineHighlight))

\* Two files with different data; the tooltip shows the data of a row of
\* the second file that stands after a skip marker, and that row is the one
\* highlighted.
C8_Witness ==
    /\ Rendered
    /\ Len(rows) = 2
    /\ \E j \in Places(2) :
          /\ rows[2][j] > j
          /\ dom[2][rows[2][j]].cls = LineHighlight
          /\ tooltip.cls = TooltipVisible
          /\ tooltip.html[4] = CountOfLine(2, RowLine(2, j))
          /\ \E j1 \in Places(1) :
                /\ Truthy(CountOfLine(1, RowLine(1, j1)))
                /\ CountOfLine(1, RowLine(1, j1)) # tooltip.html[4]

\* C9 as stated: at most one row is highlighted, and the tooltip is visible
\* exactly when a row is highlighted.
C9_OneHighlightIffTooltip ==
    /\ Cardinality(HighlightedRows) <= 1
    /\ (tooltip.cls = TooltipVisible) <=> (HighlightedRows # {})

\* C9 as amended: the tooltip is visible only when a row is highlighted.
C9_TooltipOnlyWithHighlight ==
    (tooltip.cls = TooltipVisible) => (HighlightedRows # {})

\* A hover-enter on one row followed by a hover-enter on another: two rows
\* highlighted, the tooltip visible.
C9_Witness ==
    /\ Rendered
    /\ Cardinality(HighlightedRows) = 2
    /\ tooltip.cls = TooltipVisible

\* C10 as stated: a row has a background colour exactly when hover-enter on
\* it shows the tooltip.
C10_ColourIffTooltip ==
    Rendered =>
        \A i \in Files : \A j \in Places(i) :
            (dom[i][rows[i][j]].bg # NoColor)
               <=> ENABLED (MouseOver(i, j) /\ tooltip'.cls = TooltipVisible
                              /\ dom'[i][rows[i][j]].cls = LineHighlight
                              /\ tooltip'.html[4] = CountOfLine(i, RowLine(i, j)))

\* C10 as amended: a row has a background colour exactly when heatmap holds
\* a nonzero time for its line, and hover-enter on it shows the tooltip
\* exactly when executionCount holds a nonzero count for its line; so the
\* two agree on every row whose time and count are both nonzero or both
\* zero or absent.
C10_ColourByTimeTooltipByCount ==
    Rendered =>
        \A i \in Files : \A j \in Places(i) :
            LET time == TimeOfLine(i, RowLine(i, j))
                count == CountOfLine(i, RowLine(i, j))
                coloured == dom[i][rows[i][j]].bg # NoColor
                shows == ENABLED (/\ MouseOver(i, j)
                                  /\ tooltip'.cls = TooltipVisible
                                  /\ dom'[i][rows[i][j]].cls = LineHighlight
                                  /\ tooltip'.html[4] = count)
            IN  /\ coloured <=> Truthy(time)
                /\ shows <=> Truthy(count)
                /\ (Truthy(time) <=> Truthy(count)) => (coloured <=> shows)

\* A rendered file with a coloured row that hover-enter leaves alone (a time
\* and no count) and an uncoloured row that shows the tooltip (a zero time
\* and a count), the tooltip showing the latter.
C10_Witness ==
    /\ Rendered
    /\ \E i \in Files : \E j1, j2 \in Places(i) :
          /\ dom[i][rows[i][j1]].bg # NoColor
          /\ ~Truthy(CountOfLine(i, RowLine(i, j1)))
          /\ dom[i][rows[i][j2]].bg = NoColor
          /\ dom[i][rows[i][j2]].cls = LineHighlight
          /\ tooltip.cls = TooltipVisible
          /\ tooltip.html[1] = Some(0)

====
